---- MODULE Spec2Model ----
(***************************************************************************)
(* Model of susbound: the webhook handler POST (app/api/inbound/route.ts)  *)
(* and the workflow scanAndReply with its three steps analyzeEmailForSpam, *)
(* generateReply and sendReply (workflows/scanAndReply.ts).                *)
(*                                                                         *)
(* Request r, once validated, schedules invocation r of scanAndReply.      *)
(* Every step makes one external call (model or email provider); the call  *)
(* is issued, the external party answers, and the step then returns or     *)
(* raises.  Spec is the code as written, run without interruption;         *)
(* SpecDurable adds the hosting runtime's interruption and replay of an    *)
(* invocation from its recorded step results.                              *)
(***************************************************************************)
EXTENDS Integers, Sequences, FiniteSets, TLC

\* ------------------------------------------------------------------ bounds
MaxCrashes == 1      \* interruptions of the runtime (SpecDurable only)
MaxAtoms == 3        \* pieces a string given to a function on its own is made of
MaxRefs == 4         \* references of a detection given to the prompt on its own

\* two webhook requests, and so two concurrent invocations of scanAndReply
Req == {1, 2}

Null == [kind |-> "null"]

\* ------------------------------------------------------- request payloads
\* What request.json() can produce for a request body: a throw (the body is
\* not JSON), the JSON value null, or an object whose event and email fields
\* are truthy or not.
\* Request r is about email r: each request carries a different message id.
Bodies(r) ==
    {[kind |-> "unparseable"], [kind |-> "jsonnull"]}
    \cup {[kind |-> "object", event |-> ev, email |-> em, id |-> IF em THEN r ELSE 0] :
             ev \in BOOLEAN, em \in BOOLEAN}

\* ---------------------------------------------------- external responses
\* confidence is kept in hundredths: 92 stands for 0.92
ConfidenceMin == 0
ConfidenceMax == 100

\* objects the language model may produce for the Classifier: two that
\* conform, one with confidence above 1, one without its references
ModelObjects ==
    {[isSpam |-> TRUE,  confidence |-> 92, reasoning |-> "r1",
      references |-> <<"SPF fail", "urgency language", "mismatched reply-to", "odd link">>],
     [isSpam |-> FALSE, confidence |-> 81, reasoning |-> "r2", references |-> <<>>],
     [isSpam |-> TRUE,  confidence |-> 120, reasoning |-> "r3", references |-> <<"SPF fail">>],
     [isSpam |-> TRUE,  confidence |-> 50, reasoning |-> "r4"]}

\* faulty variant: the upper limit of confidence is not enforced
SchemaAcceptsNoMax(o) ==
    /\ DOMAIN o = {"isSpam", "confidence", "reasoning", "references"}
    /\ o.isSpam \in BOOLEAN
    /\ o.confidence >= ConfidenceMin

\* spamDetectionSchema: an object with isSpam, confidence, reasoning and
\* references, z.number().min(0).max(1) on confidence
SchemaAccepts(o) ==
    /\ DOMAIN o = {"isSpam", "confidence", "reasoning", "references"}
    /\ o.isSpam \in BOOLEAN
    /\ o.confidence >= ConfidenceMin
    /\ o.confidence <= ConfidenceMax

\* ---------------------------------------------------------------- strings
\* A string is the sequence of its characters.
BodyClose == <<"<", "/", "b", "o", "d", "y", ">">>
HtmlClose == <<"<", "/", "h", "t", "m", "l", ">">>

\* const footer = '<br><br>powered by<br><a href="..."><img ...></a>'
Footer ==
    <<"<", "b", "r", ">", "<", "b", "r", ">", "p", "o", "w", "e", "r", "e",
      "d", " ", "b", "y", "<", "b", "r", ">", "<", "a", " ", "h", "r", "e",
      "f", "=", "\"", "h", "t", "t", "p", "s", ":", "/", "/", "i", "n", "b",
      "o", "u", "n", "d", ".", "n", "e", "w", "/", "?", "u", "t", "m", "_",
      "s", "o", "u", "r", "c", "e", "=", "i", "n", "b", "o", "u", "n", "d",
      "-", "s", "e", "c", "u", "r", "i", "t", "y", "&", "u", "t", "m", "_",
      "c", "a", "m", "p", "a", "i", "g", "n", "=", "s", "u", "s", "b", "o",
      "u", "n", "d", "\"", ">", "<", "i", "m", "g", " ", "s", "r", "c", "=",
      "\"", "h", "t", "t", "p", "s", ":", "/", "/", "i", "n", "b", "o", "u",
      "n", "d", ".", "n", "e", "w", "/", "i", "m", "a", "g", "e", "s", "/",
      "i", "n", "b", "o", "u", "n", "d", "-", "w", "o", "r", "d", "m", "a",
      "r", "k", ".", "p", "n", "g", "\"", " ", "a", "l", "t", "=", "\"", "I",
      "n", "b", "o", "u", "n", "d", "\"", ">", "<", "/", "a", ">">>

\* texts the language model may produce for the Composer
ModelTexts ==
    {<<"<", "b", "o", "d", "y", ">", "H", "i", " ", "&", "a", "m", "p", ";",
       " ", "<", "b", ">", "x", "<", "/", "b", ">", "<", "/", "b", "o", "d",
       "y", ">", "<", "/", "h", "t", "m", "l", ">">>,
     <<"H", "i", "<", "/", "h", "t", "m", "l", ">">>,
     <<"H", "i">>}

\* pat occurs in s at index k
IsAt(s, pat, k) ==
    /\ k >= 1
    /\ k + Len(pat) - 1 <= Len(s)
    /\ \A j \in 1..Len(pat) : s[k + j - 1] = pat[j]

\* first index at or after k where pat occurs in s, 0 when there is none
\* (String.prototype.includes / the place String.prototype.replace acts on)
IndexFrom(s, pat, k) ==
    LET at == {j \in k..(Len(s) - Len(pat) + 1) : IsAt(s, pat, j)}
    IN IF at = {} THEN 0 ELSE CHOOSE j \in at : \A m \in at : j <= m

IndexOf(s, pat) == IndexFrom(s, pat, 1)

\* replyHtml.replace(tag, footer + tag) with the tag found at index k
InsertBefore(s, k) == SubSeq(s, 1, k - 1) \o Footer \o SubSeq(s, k, Len(s))

\* faulty variant: the two closing tags are looked for in the other order
AppendFooterHtmlFirst(text) ==
    IF IndexOf(text, HtmlClose) # 0 THEN InsertBefore(text, IndexOf(text, HtmlClose))
    ELSE IF IndexOf(text, BodyClose) # 0 THEN InsertBefore(text, IndexOf(text, BodyClose))
    ELSE text \o Footer

\* generateReply, footer insertion
AppendFooter(text) ==
    IF IndexOf(text, BodyClose) # 0 THEN InsertBefore(text, IndexOf(text, BodyClose))
    ELSE IF IndexOf(text, HtmlClose) # 0 THEN InsertBefore(text, IndexOf(text, HtmlClose))
    ELSE text \o Footer

\* .replace(/<[^>]*>/g, ''): from k on, a "<" that has a ">" after it is
\* dropped together with everything up to the first such ">"
RECURSIVE StripTagsFrom(_, _)
StripTagsFrom(s, k) ==
    LET open == IndexFrom(s, <<"<">>, k)
        close == IF open = 0 THEN 0 ELSE IndexFrom(s, <<">">>, open + 1)
    IN IF close = 0 THEN SubSeq(s, k, Len(s))
       ELSE SubSeq(s, k, open - 1) \o StripTagsFrom(s, close + 1)

StripTags(s) == StripTagsFrom(s, 1)

\* .replace(/pat/g, rep): every occurrence, left to right, not overlapping
RECURSIVE ReplaceAllFrom(_, _, _, _)
ReplaceAllFrom(s, pat, r, k) ==
    LET j == IndexFrom(s, pat, k)
    IN IF j = 0 THEN SubSeq(s, k, Len(s))
       ELSE SubSeq(s, k, j - 1) \o r \o ReplaceAllFrom(s, pat, r, j + Len(pat))

ReplaceAll(s, pat, r) == ReplaceAllFrom(s, pat, r, 1)

WhiteSpace == {" ", "\n"}

\* .trim()
Trim(s) ==
    LET ink == {k \in 1..Len(s) : s[k] \notin WhiteSpace}
    IN IF ink = {} THEN <<>>
       ELSE SubSeq(s, CHOOSE k \in ink : \A m \in ink : k <= m,
                      CHOOSE k \in ink : \A m \in ink : k >= m)

\* How the state holds a string: runs of characters that spell one of these
\* words are kept as the word, every other character as itself.  Unpack gives
\* the characters back, so two strings are equal exactly when their packed
\* forms are.
Lexicon ==
    "FOOTER" :> Footer @@ "</body>" :> BodyClose @@ "</html>" :> HtmlClose
    @@ "<body>" :> <<"<", "b", "o", "d", "y", ">">>
    @@ "<b>" :> <<"<", "b", ">">> @@ "</b>" :> <<"<", "/", "b", ">">>
    @@ "&amp;" :> <<"&", "a", "m", "p", ";">>
    @@ "Hi" :> <<"H", "i">>
    @@ "powered by" :> <<"p", "o", "w", "e", "r", "e", "d", " ", "b", "y">>

RECURSIVE PackFrom(_, _)
PackFrom(s, k) ==
    IF k > Len(s) THEN <<>>
    ELSE LET ws == {w \in DOMAIN Lexicon : IsAt(s, Lexicon[w], k)}
         IN IF ws = {} THEN <<s[k]>> \o PackFrom(s, k + 1)
            ELSE LET w == CHOOSE w \in ws :
                              \A v \in ws : Len(Lexicon[w]) >= Len(Lexicon[v])
                 IN <<w>> \o PackFrom(s, k + Len(Lexicon[w]))

Pack(s) == PackFrom(s, 1)

RECURSIVE Unpack(_)
Unpack(t) ==
    IF t = <<>> THEN <<>>
    ELSE (IF Head(t) \in DOMAIN Lexicon THEN Lexicon[Head(t)] ELSE <<Head(t)>>)
         \o Unpack(Tail(t))

Nbsp == <<"&", "n", "b", "s", "p", ";">>
Amp == <<"&", "a", "m", "p", ";">>
Lt == <<"&", "l", "t", ";">>
Gt == <<"&", "g", "t", ";">>
Quot == <<"&", "q", "u", "o", "t", ";">>

\* sendReply, the plain-text version of the html: the tags go, then the five
\* entities are replaced one after the other, then the ends are trimmed
ToText(html) ==
    Trim(ReplaceAll(ReplaceAll(ReplaceAll(ReplaceAll(ReplaceAll(
        StripTags(html), Nbsp, <<" ">>), Amp, <<"&">>), Lt, <<"<">>), Gt, <<">">>),
        Quot, <<"\"">>))

\* the texts of ModelTexts as the state holds them
PackedTexts == {Pack(t) : t \in ModelTexts}

\* let replyHtml = text; ... return replyHtml: the Composer's output for each
\* text the language model may produce
replyHtml == [t \in PackedTexts |-> Pack(AppendFooter(Unpack(t)))]

\* const textContent = html.replace(...)...trim(): the plain text sendReply
\* derives from each html the Composer may hand it
textContent ==
    [h \in {replyHtml[t] : t \in PackedTexts} |-> Pack(ToText(Unpack(h)))]

\* receipts the email provider may return: data {id, messageId}
Receipts == {[id |-> 7, messageId |-> 70]}


\* ------------------------------------------------------------------ state
VARIABLES
    body,             \* body[r]: what request r carries
    hpc,              \* hpc[r]: position of POST for request r
    response,         \* response[r]: HTTP status answered, 0 while none
    payload,          \* payload[i]: the payload invocation i was started with
    state,            \* state[i]: NONE, PENDING, CLASSIFIED, COMPOSED, SENT, DONE, FAILED
    running,          \* running[i]: the step being executed, "none" between steps
    call,             \* call[i]: the external call of the running step
    detectionResult,  \* recorded output of analyzeEmailForSpam
    reply,            \* recorded output of generateReply
    sendResult,       \* recorded output of sendReply
    result,           \* the aggregate scanAndReply returned
    modelText,        \* the text generateText returned to the recorded generateReply
    replyCalls,       \* replyCalls[i]: the arguments inbound.reply was called with
    accepted,         \* accepted[i]: replies the provider accepted (emails sent)
    raisedAt,         \* raisedAt[i]: the step whose error ended the invocation
    errSeen,          \* errSeen[i]: the steps whose external call reported an error
    resumed,          \* resumed[i]: the states invocation i was interrupted in
    crashes,          \* interruptions so far
    pin,              \* input of the function applied on its own (Null in Spec)
    pout              \* its output

vars == <<body, hpc, response, payload, state, running, call, detectionResult,
          reply, sendResult, result, modelText, replyCalls, accepted, raisedAt, errSeen,
          resumed, crashes, pin, pout>>

pvars == <<pin, pout>>

hvars == <<body, hpc, response>>
wvars == <<payload, state, running, call, detectionResult, reply, sendResult,
           result, modelText, replyCalls, accepted,
           raisedAt, errSeen, resumed>>

NoCall == [st |-> "none"]
InFlight == [st |-> "inflight"]
CallError == [st |-> "error"]
CallOk(v) == [st |-> "ok", val |-> v]

Init ==
    /\ body \in {b \in [Req -> UNION {Bodies(r) : r \in Req}] : \A r \in Req : b[r] \in Bodies(r)}
    /\ hpc = [r \in Req |-> "recv"]
    /\ response = [r \in Req |-> 0]
    /\ payload = [i \in Req |-> Null]
    /\ state = [i \in Req |-> "NONE"]
    /\ running = [i \in Req |-> "none"]
    /\ call = [i \in Req |-> NoCall]
    /\ detectionResult = [i \in Req |-> Null]
    /\ reply = [i \in Req |-> Null]
    /\ sendResult = [i \in Req |-> Null]
    /\ result = [i \in Req |-> Null]
    /\ modelText = [i \in Req |-> Null]
    /\ replyCalls = [i \in Req |-> {}]
    /\ accepted = [i \in Req |-> 0]
    /\ raisedAt = [i \in Req |-> "none"]
    /\ errSeen = [i \in Req |-> {}]
    /\ resumed = [i \in Req |-> {}]
    /\ crashes = 0
    /\ pin = Null
    /\ pout = Null

\* ------------------------------------------------------- webhook handler
StatusOk == 200
StatusInvalid == 400

\* faulty variant: the catch block answers as if the webhook had been accepted
StatusErrorAsOk == StatusOk

StatusError == 500

\* faulty variant: only the event field is checked
MissingFieldEventOnly(b) == ~b.event

\* !payload.event || !payload.email
MissingField(b) == ~b.event \/ ~b.email

\* POST up to the call of start(...): request.json() throws on a body that is
\* not JSON and reading payload.event throws when the body is the JSON value
\* null (both land in the catch, 500); a missing field is answered 400
ReceiveWebhook(r) ==
    /\ hpc[r] = "recv"
    /\ IF body[r].kind \in {"unparseable", "jsonnull"}
       THEN /\ hpc' = [hpc EXCEPT ![r] = "done"]
            /\ response' = [response EXCEPT ![r] = StatusError]
       ELSE IF MissingField(body[r])
       THEN /\ hpc' = [hpc EXCEPT ![r] = "done"]
            /\ response' = [response EXCEPT ![r] = StatusInvalid]
       ELSE /\ hpc' = [hpc EXCEPT ![r] = "starting"]
            /\ UNCHANGED response
    /\ UNCHANGED <<body, crashes, pvars>>
    /\ UNCHANGED wvars

\* start(scanAndReply, [payload]) schedules the run
StartWorkflow(r) ==
    /\ hpc[r] = "starting"
    /\ hpc' = [hpc EXCEPT ![r] = "started"]
    /\ state' = [state EXCEPT ![r] = "PENDING"]
    /\ payload' = [payload EXCEPT ![r] = body[r]]
    /\ UNCHANGED <<body, response, crashes, pvars, running, call, detectionResult, reply,
                   sendResult, result, modelText, replyCalls, accepted, raisedAt, errSeen, resumed>>

\* start(...) rejects: the catch answers 500 and no run exists
StartFails(r) ==
    /\ hpc[r] = "starting"
    /\ hpc' = [hpc EXCEPT ![r] = "done"]
    /\ response' = [response EXCEPT ![r] = StatusError]
    /\ UNCHANGED <<body, crashes, pvars>>
    /\ UNCHANGED wvars

\* faulty variant: the handler awaits the run's return value
StartSettledOnCompletion(r) == state[r] \in {"DONE", "FAILED"}

\* what await start(...) waits for: the run being scheduled
StartSettled(r) == state[r] # "NONE"

\* start(...) resolved: the handler answers 200
Respond(r) ==
    /\ hpc[r] = "started"
    /\ StartSettled(r)
    /\ hpc' = [hpc EXCEPT ![r] = "done"]
    /\ response' = [response EXCEPT ![r] = StatusOk]
    /\ UNCHANGED <<body, crashes, pvars>>
    /\ UNCHANGED wvars

\* ------------------------------------------------------------- workflow
\* the order in which scanAndReply awaits its steps
Steps == <<"analyzeEmailForSpam", "generateReply", "sendReply">>

StateNames == <<"PENDING", "CLASSIFIED", "COMPOSED", "SENT">>

\* number of steps whose completion state st records
Done(st) == CHOOSE k \in 0..3 : StateNames[k + 1] = st

\* faulty variant: generateReply is called before analyzeEmailForSpam has been awaited
StepAtComposerFirst(st) ==
    IF st = "PENDING" THEN "generateReply" ELSE Steps[Done(st) + 1]

\* the step scanAndReply runs next from state st
StepAt(st) == Steps[Done(st) + 1]

\* the state recorded when step s has returned
Completed(s) == StateNames[(CHOOSE k \in 1..3 : Steps[k] = s) + 1]

\* faulty variant: scanAndReply catches the step's error and carries on
OnStepErrorSwallowed(s) == Completed(s)

\* faulty variant: the failed step is run again
OnStepErrorRetry(s) == StateNames[CHOOSE k \in 1..3 : Steps[k] = s]

\* a raised step error is not caught by scanAndReply: the run ends failed
OnStepError(s) == "FAILED"

\* faulty variant: analyzeEmailForSpam is a plain function, not a step
IsStepClassifierPlain(s) == s \in {"generateReply", "sendReply"}

\* the functions carrying the "use step" directive
IsStep(s) == s \in {"analyzeEmailForSpam", "generateReply", "sendReply"}

\* faulty variant: the message id is read from a variable all invocations write
\* (the payload of the invocation started last)
ReplyArgsShared(i) ==
    LET j == CHOOSE j \in Req :
                 /\ state[j] # "NONE"
                 /\ \A k \in Req : state[k] # "NONE" => k <= j
    IN [id |-> payload[j].id, html |-> reply[i].html,
        text |-> textContent[reply[i].html]]

\* faulty variant: sendReply is handed the model's text, not the Composer's output
ReplyArgsModelText(i) ==
    [id |-> payload[i].id, html |-> modelText[i].text,
     text |-> Pack(ToText(Unpack(modelText[i].text)))]

\* arguments of inbound.reply: sendReply(payload.email.id, reply, payload)
ReplyArgs(i) ==
    [id |-> payload[i].id, html |-> reply[i].html,
     text |-> textContent[reply[i].html]]

\* a step starts and issues its one external call
BeginStep(i) ==
    /\ state[i] \in {"PENDING", "CLASSIFIED", "COMPOSED"}
    /\ running[i] = "none"
    /\ running' = [running EXCEPT ![i] = StepAt(state[i])]
    /\ call' = [call EXCEPT ![i] = InFlight]
    /\ replyCalls' = [replyCalls EXCEPT ![i] =
                         IF StepAt(state[i]) = "sendReply" THEN @ \cup {ReplyArgs(i)} ELSE @]
    /\ UNCHANGED <<payload, state, detectionResult, reply, sendResult, result,
                   modelText, accepted, raisedAt, errSeen, resumed>>
    /\ UNCHANGED <<hvars, crashes, pvars>>

\* what the external party may answer to the call of step s
Answers(s) ==
    CASE s = "analyzeEmailForSpam" -> {CallOk(o) : o \in ModelObjects}
      [] s = "generateReply" -> {CallOk(t) : t \in PackedTexts}
      [] s = "sendReply" -> {CallOk(d) : d \in Receipts}

\* faulty variant: a repeated reply to the same message is recognised and not sent
DeliveredOnce(n, a) == IF a.st = "ok" /\ n = 0 THEN 1 ELSE n

\* the provider's count of replies sent after answering a to one more
\* inbound.reply call: the call carries nothing that marks it as a repeat
Delivered(n, a) == IF a.st = "ok" THEN n + 1 ELSE n

\* the external call is answered: a value, or an error
ExternalAnswer(i) ==
    /\ call[i] = InFlight
    /\ \E a \in Answers(running[i]) \cup {CallError} :
         /\ call' = [call EXCEPT ![i] = a]
         /\ accepted' = [accepted EXCEPT ![i] =
                           IF running[i] = "sendReply" THEN Delivered(@, a) ELSE @]
         /\ errSeen' = [errSeen EXCEPT ![i] =
                           IF a.st = "error" THEN @ \cup {running[i]} ELSE @]
    /\ UNCHANGED <<payload, state, running, detectionResult, reply, sendResult,
                   result, modelText, replyCalls, raisedAt, resumed>>
    /\ UNCHANGED <<hvars, crashes, pvars>>

\* faulty variant: sendReply does not look at the error the provider returned
RaisesProviderErrorIgnored(s, a) ==
    \/ s # "sendReply" /\ a.st = "error"
    \/ s = "analyzeEmailForSpam" /\ a.st = "ok" /\ ~SchemaAccepts(a.val)

\* does the running step raise on the answer it got: generateObject and
\* generateText reject on a call error, generateObject also on an object the
\* schema does not accept, sendReply throws on { error }
Raises(s, a) ==
    \/ a.st = "error"
    \/ s = "analyzeEmailForSpam" /\ a.st = "ok" /\ ~SchemaAccepts(a.val)

\* the value a step takes from the answer (data / object / text)
AnswerValue(a) == IF a.st = "ok" THEN a.val ELSE Null

\* the step returns (its output is recorded) or raises
FinishStep(i) ==
    /\ running[i] # "none"
    /\ call[i].st \in {"ok", "error"}
    /\ running' = [running EXCEPT ![i] = "none"]
    /\ call' = [call EXCEPT ![i] = NoCall]
    /\ IF Raises(running[i], call[i])
       THEN /\ state' = [state EXCEPT ![i] = OnStepError(running[i])]
            /\ raisedAt' = [raisedAt EXCEPT ![i] = running[i]]
            /\ UNCHANGED <<detectionResult, reply, sendResult, modelText>>
       ELSE /\ state' = [state EXCEPT ![i] = Completed(running[i])]
            /\ UNCHANGED raisedAt
            /\ detectionResult' = [detectionResult EXCEPT ![i] =
                 IF running[i] = "analyzeEmailForSpam"
                 THEN [kind |-> "detection", detectionResult |-> AnswerValue(call[i]),
                       emailId |-> payload[i].id]
                 ELSE @]
            /\ reply' = [reply EXCEPT ![i] =
                 IF running[i] = "generateReply"
                 THEN [kind |-> "html", html |-> replyHtml[AnswerValue(call[i])]]
                 ELSE @]
            /\ modelText' = [modelText EXCEPT ![i] =
                 IF running[i] = "generateReply"
                 THEN [kind |-> "text", text |-> AnswerValue(call[i])]
                 ELSE @]
            /\ sendResult' = [sendResult EXCEPT ![i] =
                 IF running[i] = "sendReply"
                 THEN [kind |-> "receipt", data |-> AnswerValue(call[i])]
                 ELSE @]
    /\ UNCHANGED <<payload, result, replyCalls, accepted, errSeen, resumed>>
    /\ UNCHANGED <<hvars, crashes, pvars>>

\* faulty variant: emailId is taken from the receipt, the id of the reply sent
AggregateSentId(i) ==
    [kind |-> "result", success |-> TRUE, emailId |-> sendResult[i].data.id,
     detectionResult |-> detectionResult[i], reply |-> reply[i],
     sendResult |-> sendResult[i]]

\* { success: true, emailId: payload.email.id, detectionResult, reply, sendResult }
Aggregate(i) ==
    [kind |-> "result", success |-> TRUE, emailId |-> payload[i].id,
     detectionResult |-> detectionResult[i], reply |-> reply[i],
     sendResult |-> sendResult[i]]

\* scanAndReply returns the aggregate
ReturnResult(i) ==
    /\ state[i] = "SENT"
    /\ running[i] = "none"
    /\ state' = [state EXCEPT ![i] = "DONE"]
    /\ result' = [result EXCEPT ![i] = Aggregate(i)]
    /\ UNCHANGED <<payload, running, call, detectionResult, reply, sendResult,
                   modelText, replyCalls, accepted,
                   raisedAt, errSeen, resumed>>
    /\ UNCHANGED <<hvars, crashes, pvars>>

\* the state a replay of scanAndReply resumes from: the function runs again
\* from the top, a step whose output is recorded returns it without running
RECURSIVE ResumeFrom(_, _)
ResumeFrom(k, done) ==
    IF k > done THEN StateNames[done + 1]
    ELSE IF ~IsStep(Steps[k]) THEN StateNames[k]
    ELSE ResumeFrom(k + 1, done)

ResumeState(st) == ResumeFrom(1, Done(st))

\* the runtime is interrupted while invocation i is unfinished; what the
\* running step had in hand is lost, the recorded outputs are kept
Crash(i) ==
    /\ state[i] \in {"PENDING", "CLASSIFIED", "COMPOSED", "SENT"}
    /\ crashes < MaxCrashes
    /\ crashes' = crashes + 1
    /\ running' = [running EXCEPT ![i] = "none"]
    /\ call' = [call EXCEPT ![i] = NoCall]
    /\ state' = [state EXCEPT ![i] = ResumeState(state[i])]
    /\ resumed' = [resumed EXCEPT ![i] = @ \cup {state[i]}]
    /\ UNCHANGED <<payload, detectionResult, reply, sendResult, result, modelText,
                   replyCalls, accepted, raisedAt, errSeen>>
    /\ UNCHANGED <<hvars, pvars>>

Next ==
    \/ \E r \in Req : ReceiveWebhook(r)
    \/ \E r \in Req : StartWorkflow(r)
    \/ \E r \in Req : StartFails(r)
    \/ \E r \in Req : Respond(r)
    \/ \E i \in Req : BeginStep(i)
    \/ \E i \in Req : ExternalAnswer(i)
    \/ \E i \in Req : FinishStep(i)
    \/ \E i \in Req : ReturnResult(i)

Spec == Init /\ [][Next]_vars

\* Spec with progress: the runtime keeps running an invocation that can take
\* its next step (it starts the awaited step, finishes it once the call is
\* answered, returns once the last await is over), and every external call
\* that is in flight is answered in the end, with a value or an error.
SpecLive ==
    /\ Spec
    /\ \A i \in Req : WF_vars(BeginStep(i))
    /\ \A i \in Req : WF_vars(ExternalAnswer(i))
    /\ \A i \in Req : WF_vars(FinishStep(i))
    /\ \A i \in Req : WF_vars(ReturnResult(i))

NextDurable ==
    \/ Next
    \/ \E i \in Req : Crash(i)

SpecDurable == Init /\ [][NextDurable]_vars

\* ------------------------------------------- the functions on their own
\* generateReply's prompt, the lines "Classification" and "Key Concerns"
\* ${detectionResult.isSpam ? 'SPAM/MALICIOUS' : 'LEGITIMATE'}
Classification(d) == IF d.isSpam THEN "SPAM/MALICIOUS" ELSE "LEGITIMATE"

\* Array.prototype.slice(a, b): the entries at 0-based indices a .. b-1 that exist
Slice(s, a, b) == SubSeq(s, a + 1, IF b < Len(s) THEN b ELSE Len(s))

\* Array.prototype.join(sep): the entries with sep between neighbours
RECURSIVE Join(_, _)
Join(s, sep) ==
    IF Len(s) <= 1 THEN s ELSE <<Head(s), sep>> \o Join(Tail(s), sep)

\* faulty variant: one more reference is listed
KeyConcernsFour(d) == Join(Slice(d.references, 0, 4), "; ")

\* ${detectionResult.references.slice(0, 3).join('; ')}
KeyConcerns(d) == Join(Slice(d.references, 0, 3), "; ")

RECURSIVE Flatten(_)
Flatten(ss) == IF ss = <<>> THEN <<>> ELSE Head(ss) \o Flatten(Tail(ss))

\* the strings made of at most MaxAtoms pieces out of A
StringsOf(A) == {Flatten(ss) : ss \in UNION {[1..n -> A] : n \in 0..MaxAtoms}}

\* model texts for the footer insertion: with or without either closing tag,
\* in either order, repeated, and with the footer's own text in them
FooterInputs ==
    StringsOf({BodyClose, HtmlClose, <<"H", "i">>, <<"<">>, Footer})

\* html for the plain-text projection: tags, the five entities, pieces of
\* entities, blanks and plain characters
TextInputs ==
    StringsOf({Nbsp, Amp, Lt, Gt, Quot, <<"l", "t", ";">>, <<"<", "b", ">">>,
               <<" ">>, <<"x">>, <<">">>})
    \cup {<<"H", "i", " ", "<", "b", ">", "t", "h", "e", "r", "e", "<", "/", "b", ">",
             " ", "&", "a", "m", "p", ";", " ", "w", "e", "l", "c", "o", "m", "e">>}

\* detections for the prompt: either verdict, low or high confidence, up to
\* MaxRefs references
PromptInputs ==
    {[isSpam |-> b, confidence |-> c, reasoning |-> "r", references |-> rs] :
        b \in BOOLEAN, c \in {10, 92},
        rs \in UNION {[1..n -> {"SPF fail", "urgency language"}] : n \in 0..MaxRefs}}

InitFunctions ==
    /\ body = [r \in Req |-> [kind |-> "unparseable"]]
    /\ hpc = [r \in Req |-> "recv"]
    /\ response = [r \in Req |-> 0]
    /\ payload = [i \in Req |-> Null]
    /\ state = [i \in Req |-> "NONE"]
    /\ running = [i \in Req |-> "none"]
    /\ call = [i \in Req |-> NoCall]
    /\ detectionResult = [i \in Req |-> Null]
    /\ reply = [i \in Req |-> Null]
    /\ sendResult = [i \in Req |-> Null]
    /\ result = [i \in Req |-> Null]
    /\ modelText = [i \in Req |-> Null]
    /\ replyCalls = [i \in Req |-> {}]
    /\ accepted = [i \in Req |-> 0]
    /\ raisedAt = [i \in Req |-> "none"]
    /\ errSeen = [i \in Req |-> {}]
    /\ resumed = [i \in Req |-> {}]
    /\ crashes = 0
    /\ pin \in {[kind |-> "text", text |-> t] : t \in FooterInputs}
               \cup {[kind |-> "html", html |-> h] : h \in TextInputs}
               \cup {[kind |-> "detection", detectionResult |-> d] : d \in PromptInputs}
    /\ pout = Null

\* generateReply's footer insertion applied to the text pin
ApplyAppendFooter ==
    /\ pin.kind = "text"
    /\ pout = Null
    /\ pout' = [kind |-> "html", html |-> AppendFooter(pin.text)]
    /\ UNCHANGED <<pin, hvars, wvars, crashes>>

\* sendReply's plain-text projection applied to the html pin
ApplyToText ==
    /\ pin.kind = "html"
    /\ pout = Null
    /\ pout' = [kind |-> "text", text |-> ToText(pin.html)]
    /\ UNCHANGED <<pin, hvars, wvars, crashes>>

\* the verdict lines of generateReply's prompt built from the detection pin
ApplyPrompt ==
    /\ pin.kind = "detection"
    /\ pout = Null
    /\ pout' = [kind |-> "prompt",
                classification |-> Classification(pin.detectionResult),
                keyConcerns |-> KeyConcerns(pin.detectionResult)]
    /\ UNCHANGED <<pin, hvars, wvars, crashes>>

NextFunctions ==
    \/ ApplyAppendFooter
    \/ ApplyToText
    \/ ApplyPrompt

SpecFunctions == InitFunctions /\ [][NextFunctions]_vars

\* ------------------------------------------------------------- claims
Active == {"PENDING", "CLASSIFIED", "COMPOSED", "SENT"}
Terminal == {"DONE", "FAILED"}

\* invocation i issues an external call in this step
Issues(i) == running[i] = "none" /\ running'[i] # "none"

\* C1: within one invocation generateReply runs only once analyzeEmailForSpam
\* has completed with its output in hand, sendReply only once generateReply
\* has, and the state moves only one place along PENDING, CLASSIFIED, COMPOSED,
\* SENT, DONE (or to FAILED), never skipping a place and never going back.
C1_Order(i) ==
    /\ running[i] = "analyzeEmailForSpam" => state[i] = "PENDING"
    /\ running[i] = "generateReply" =>
          state[i] = "CLASSIFIED" /\ detectionResult[i] # Null
    /\ running[i] = "sendReply" =>
          state[i] = "COMPOSED" /\ detectionResult[i] # Null /\ reply[i] # Null
    /\ state[i] \in {"CLASSIFIED", "COMPOSED", "SENT", "DONE"} => detectionResult[i] # Null
    /\ state[i] \in {"COMPOSED", "SENT", "DONE"} => reply[i] # Null
    /\ state[i] \in {"SENT", "DONE"} => sendResult[i] # Null

C1_Advance(i) ==
    state'[i] # state[i] =>
        <<state[i], state'[i]>> \in
            {<<"NONE", "PENDING">>, <<"PENDING", "CLASSIFIED">>,
             <<"CLASSIFIED", "COMPOSED">>, <<"COMPOSED", "SENT">>, <<"SENT", "DONE">>}
            \cup {<<st, "FAILED">> : st \in {"PENDING", "CLASSIFIED", "COMPOSED"}}

C1_Sequencing ==
    /\ [](\A i \in Req : C1_Order(i))
    /\ [][\A i \in Req : C1_Advance(i)]_vars

C1_Witness == \E i \in Req : state[i] = "DONE" /\ result[i] # Null

\* C2: once analyzeEmailForSpam or generateReply has raised, the invocation is
\* failed for good: no step is running, inbound.reply was never called for it,
\* nothing was sent, no result was returned, and the failed step left no
\* output (no stand-in verdict or reply).
C2_NoLaterStep ==
    \A i \in Req :
        raisedAt[i] \in {"analyzeEmailForSpam", "generateReply"} =>
            /\ state[i] = "FAILED"
            /\ running[i] = "none"
            /\ replyCalls[i] = {}
            /\ accepted[i] = 0
            /\ sendResult[i] = Null
            /\ result[i] = Null
            /\ reply[i] = Null
            /\ raisedAt[i] = "analyzeEmailForSpam" => detectionResult[i] = Null

C2_Witness ==
    /\ \E i \in Req : raisedAt[i] = "analyzeEmailForSpam" /\ state[i] = "FAILED"
    /\ \E i \in Req : raisedAt[i] = "generateReply" /\ state[i] = "FAILED"

\* C3: when inbound.reply has returned an error, sendReply records no receipt
\* and raises: the invocation is either still inside sendReply holding the
\* error or failed by sendReply, and it has no result (none with success true).
C3_ProviderErrorRaises ==
    \A i \in Req :
        "sendReply" \in errSeen[i] =>
            /\ sendResult[i] = Null
            /\ result[i] = Null
            /\ \/ running[i] = "sendReply" /\ call[i] = CallError /\ state[i] = "COMPOSED"
               \/ state[i] = "FAILED" /\ raisedAt[i] = "sendReply"

C3_Witness ==
    \E i \in Req : "sendReply" \in errSeen[i] /\ state[i] = "FAILED" /\ accepted[i] = 0

\* C4: after an external call of an invocation has reported an error, the
\* invocation issues no further call: no step of it is started again, and the
\* set of inbound.reply calls and the replies sent stay as they are.
C4_NoRetry ==
    [][\A i \in Req :
         errSeen[i] # {} =>
             /\ ~Issues(i)
             /\ replyCalls'[i] = replyCalls[i]
             /\ accepted'[i] = accepted[i]]_vars

C4_Witness ==
    \E i \in Req : "sendReply" \in errSeen[i] /\ raisedAt[i] = "sendReply"
                     /\ Cardinality(replyCalls[i]) = 1

\* the recorded output of step s in invocation i
Recorded(i, s) ==
    CASE s = "analyzeEmailForSpam" -> detectionResult[i]
      [] s = "generateReply" -> reply[i]
      [] s = "sendReply" -> sendResult[i]

\* invocation i is interrupted in this step
Interrupted(i) == resumed'[i] # resumed[i]

\* C5: an interruption leaves the recorded state and the recorded outputs as
\* they are, and a step is only ever started when its own output is not yet
\* recorded and the outputs of all steps before it are: a resumed invocation
\* goes on with the first uncompleted step and runs no completed step again.
C5_Step(i) ==
    /\ Interrupted(i) => state'[i] = state[i] /\ running'[i] = "none"
    /\ \A s \in {"analyzeEmailForSpam", "generateReply", "sendReply"} :
          Recorded(i, s) # Null => Recorded(i, s)' = Recorded(i, s)
    /\ Issues(i) =>
          /\ Recorded(i, running'[i]) = Null
          /\ \A k \in 1..3 : \A m \in 1..3 :
                (Steps[k] = running'[i] /\ m < k) => Recorded(i, Steps[m]) # Null

C5_NoRerun == [][\A i \in Req : C5_Step(i)]_vars

C5_Witness ==
    \E i \in Req : "CLASSIFIED" \in resumed[i] /\ state[i] = "DONE"

\* C6: delivery is at least once and not at most once.  A run that recorded
\* sendReply's completion has sent at least one reply; an interruption in
\* COMPOSED leaves the run in COMPOSED, so sendReply runs again; and every
\* inbound.reply call the provider accepts sends one more reply, however many
\* were sent before, always for the invocation's own message id.  Replies
\* beyond the first come only from replays.
C6_Inv(i) ==
    /\ state[i] \in {"SENT", "DONE"} => accepted[i] >= 1
    /\ accepted[i] <= 1 + crashes
    /\ \A c \in replyCalls[i] : c.id = payload[i].id

C6_Step(i) ==
    /\ (running[i] = "sendReply" /\ call[i] = InFlight /\ call'[i].st = "ok")
          => accepted'[i] = accepted[i] + 1
    /\ (Interrupted(i) /\ state[i] = "COMPOSED")
          => state'[i] = "COMPOSED" /\ running'[i] = "none" /\ accepted'[i] = accepted[i]

C6_AtLeastOnce ==
    /\ [](\A i \in Req : C6_Inv(i))
    /\ [][\A i \in Req : C6_Step(i)]_vars

C6_Witness ==
    \E i \in Req : /\ accepted[i] = 2
                     /\ state[i] = "DONE"
                     /\ replyCalls[i] = {[id |-> payload[i].id, html |-> reply[i].html,
                                          text |-> textContent[reply[i].html]]}

\* what belongs to invocation i
InvState(i) ==
    <<payload[i], state[i], running[i], call[i], detectionResult[i], reply[i],
      sendResult[i], result[i], modelText[i], replyCalls[i], accepted[i],
      raisedAt[i], errSeen[i]>>

\* C7: two concurrent invocations do not touch each other.  No step changes
\* what belongs to both; whatever an invocation sends carries its own message
\* id and the footer put on its own model text; its result names its own
\* message id and outputs; and it is FAILED exactly when one of its own steps
\* raised, on an error of its own call or on its own rejected model object.
C7_Own(i) ==
    /\ payload[i] # Null => payload[i] = body[i]
    /\ \A c \in replyCalls[i] :
          /\ modelText[i] # Null
          /\ c.id = body[i].id
          /\ c.html = replyHtml[modelText[i].text]
    /\ result[i] # Null =>
          /\ result[i].emailId = body[i].id
          /\ result[i].detectionResult = detectionResult[i]
          /\ result[i].detectionResult.emailId = body[i].id
          /\ result[i].reply = reply[i]
          /\ result[i].sendResult = sendResult[i]
    /\ state[i] = "FAILED" <=> raisedAt[i] # "none"
    /\ state[i] = "DONE" => errSeen[i] = {} /\ accepted[i] = 1
    /\ raisedAt[i] # "none" =>
          \/ errSeen[i] = {raisedAt[i]}
          \/ raisedAt[i] = "analyzeEmailForSpam" /\ errSeen[i] = {}

C7_Isolation ==
    /\ [](\A i \in Req : C7_Own(i))
    /\ [][\A i \in Req : \A j \in Req :
            i # j => (InvState(i)' = InvState(i) \/ InvState(j)' = InvState(j))]_vars

C7_Witness ==
    /\ state[1] = "DONE" /\ accepted[1] = 1
    /\ state[2] = "FAILED" /\ raisedAt[2] = "generateReply"

C9_NoWait ==
    /\ [](\A r \in Req : hpc[r] = "started" => ENABLED Respond(r))
    /\ [][\A r \in Req : response[r] # 0 => response'[r] = response[r]]_vars

C9_Witness ==
    /\ response[1] = 200 /\ state[1] = "PENDING" /\ running[1] = "none"
    /\ response[2] = 200 /\ state[2] = "FAILED"

\* C10: a request is answered exactly when the handler is finished with it,
\* with 200, 400 or 500; 500 exactly when the handler threw (body not JSON,
\* body the JSON null, start rejected), 200 only when the run was scheduled,
\* 400 only for a payload object missing a field.
Threw(r) ==
    \/ body[r].kind \in {"unparseable", "jsonnull"}
    \/ body[r].kind = "object" /\ body[r].event /\ body[r].email /\ state[r] = "NONE"

C10_Responses ==
    \A r \in Req :
        /\ hpc[r] = "done" <=> response[r] # 0
        /\ response[r] \in {0, 200, 400, 500}
        /\ hpc[r] = "done" => (response[r] = 500 <=> Threw(r))
        /\ response[r] = 200 => state[r] # "NONE"
        /\ response[r] = 400 => body[r].kind = "object" /\ (~body[r].event \/ ~body[r].email)

C10_Witness ==
    /\ response[1] = 500 /\ body[1].kind = "object" /\ state[1] = "NONE"
    /\ response[2] = 500 /\ body[2].kind = "unparseable"

\* ---- C11
\* The place the footer goes in text t, as the claim words it: right before
\* the first "</body>" if there is one, else right before the first "</html>"
\* if there is one, else after the last character.
C11_Place(t) ==
    LET bs == {k \in 1..Len(t) : IsAt(t, BodyClose, k)}
        hs == {k \in 1..Len(t) : IsAt(t, HtmlClose, k)}
    IN IF bs # {} THEN CHOOSE k \in bs : \A m \in bs : k <= m
       ELSE IF hs # {} THEN CHOOSE k \in hs : \A m \in hs : k <= m
       ELSE Len(t) + 1

\* C11: whatever the model text, the Composer's output is that text with one
\* copy of the footer put in at the claimed place; cutting that copy out
\* gives the model text back.
C11_FooterOnce ==
    (pin.kind = "text" /\ pout # Null) =>
        LET t == pin.text
            h == pout.html
            k == C11_Place(t)
        IN /\ Len(h) = Len(t) + Len(Footer)
           /\ IsAt(h, Footer, k)
           /\ SubSeq(h, 1, k - 1) \o SubSeq(h, k + Len(Footer), Len(h)) = t

\* the footer has been put into a text that has "</html>" ahead of "</body>"
C11_Witness ==
    /\ pin.kind = "text"
    /\ pout # Null
    /\ IndexOf(pin.text, HtmlClose) # 0
    /\ IndexOf(pin.text, BodyClose) > IndexOf(pin.text, HtmlClose)

\* ---- C12
\* index p of h lies in a tag-delimited substring: a "<" at or before p with
\* no ">" between it and p, and a ">" at or after p
C12_InTag(h, p) ==
    \E o \in 1..p, c \in p..Len(h) :
        /\ h[o] = "<"
        /\ h[c] = ">"
        /\ \A j \in o..(p - 1) : h[j] # ">"

\* h without its tag-delimited substrings
C12_Untagged(h) ==
    LET keep == {p \in 1..Len(h) : ~C12_InTag(h, p)}
    IN [n \in 1..Cardinality(keep) |->
           h[CHOOSE p \in keep : Cardinality({q \in keep : q <= p}) = n]]

C12_Entities ==
    {[name |-> Nbsp, char |-> " "], [name |-> Amp, char |-> "&"],
     [name |-> Lt, char |-> "<"], [name |-> Gt, char |-> ">"],
     [name |-> Quot, char |-> "\""]}

\* s read once from left to right, each entity of E that stands in s turned
\* into its character, everything else kept
RECURSIVE C12_UnescapeFrom(_, _, _)
C12_UnescapeFrom(s, E, k) ==
    IF k > Len(s) THEN <<>>
    ELSE LET here == {e \in E : IsAt(s, e.name, k)}
         IN IF here = {} THEN <<s[k]>> \o C12_UnescapeFrom(s, E, k + 1)
            ELSE LET e == CHOOSE e \in here : TRUE
                 IN <<e.char>> \o C12_UnescapeFrom(s, E, k + Len(e.name))

C12_Unescape(s, E) == C12_UnescapeFrom(s, E, 1)

C12_Example ==
    <<"H", "i", " ", "<", "b", ">", "t", "h", "e", "r", "e", "<", "/", "b", ">",
      " ", "&", "a", "m", "p", ";", " ", "w", "e", "l", "c", "o", "m", "e">>

C12_ExampleText ==
    <<"H", "i", " ", "t", "h", "e", "r", "e", " ", "&", " ", "w", "e", "l", "c",
      "o", "m", "e">>

C13_Conforms(o) ==
    /\ DOMAIN o = {"isSpam", "confidence", "reasoning", "references"}
    /\ o.isSpam \in BOOLEAN
    /\ o.confidence \in 0..100

\* C13: a recorded DetectionResult always has the fixed shape and a confidence
\* in [0, 1], the Composer only ever runs on such a one, and when the model's
\* answer to the Classifier does not conform the Classifier ends the
\* invocation as failed and records no DetectionResult.
C13_Inv(i) ==
    /\ detectionResult[i] # Null => C13_Conforms(detectionResult[i].detectionResult)
    /\ running[i] = "generateReply" => detectionResult[i] # Null

C13_Step(i) ==
    (/\ running[i] = "analyzeEmailForSpam"
     /\ call[i].st = "ok"
     /\ ~C13_Conforms(call[i].val)
     /\ running'[i] # running[i])
        => state'[i] = "FAILED" /\ detectionResult'[i] = Null

C13_SchemaEnforced ==
    /\ [](\A i \in Req : C13_Inv(i))
    /\ [][\A i \in Req : C13_Step(i)]_vars

\* one invocation failed on a model object with confidence above 1 while the
\* other has its DetectionResult recorded
C13_Witness ==
    \E i, j \in Req :
        /\ state[i] = "FAILED" /\ raisedAt[i] = "analyzeEmailForSpam"
        /\ errSeen[i] = {} /\ detectionResult[i] = Null
        /\ detectionResult[j] # Null /\ state[j] = "COMPOSED"

\* ---- C15
\* C15: every inbound.reply call of an invocation names the message id of its
\* payload, carries as html the Composer's recorded output, which has the
\* footer in it, and carries as text the plain-text projection of that html.
C15_Inv(i) ==
    \A c \in replyCalls[i] :
        /\ payload[i] # Null
        /\ c.id = payload[i].id
        /\ reply[i] # Null
        /\ c.html = reply[i].html

\* the call invocation i makes in this step
C15_Step(i) ==
    \A c \in replyCalls'[i] \ replyCalls[i] :
        /\ c.id = payload[i].id
        /\ c.html = reply[i].html
        /\ IndexOf(Unpack(c.html), Footer) # 0
        /\ Unpack(c.text) = ToText(Unpack(c.html))

C15_ReplyCall ==
    /\ [](\A i \in Req : C15_Inv(i))
    /\ [][\A i \in Req : C15_Step(i)]_vars

\* a reply call is in flight whose html had a tag and an entity to project
C15_Witness ==
    \E i \in Req : \E c \in replyCalls[i] :
        /\ running[i] = "sendReply"
        /\ call[i] = InFlight
        /\ IndexOf(Unpack(c.html), Amp) # 0
        /\ IndexOf(Unpack(c.text), Amp) = 0

\* ---- C16
\* C16: the payload an invocation was started with is the request's body and
\* never changes; the DetectionResult is what the Classifier returned (the
\* model's object and the payload's message id) and never changes once
\* recorded; the aggregate returned carries that DetectionResult and the
\* payload's message id.
C16_Inv(i) ==
    /\ payload[i] # Null => payload[i] = body[i]
    /\ result[i] # Null =>
          /\ result[i].detectionResult = detectionResult[i]
          /\ result[i].emailId = payload[i].id
          /\ result[i].emailId = result[i].detectionResult.emailId

C16_Step(i) ==
    /\ payload[i] # Null => payload'[i] = payload[i]
    /\ detectionResult[i] # Null => detectionResult'[i] = detectionResult[i]
    /\ (detectionResult[i] = Null /\ detectionResult'[i] # Null) =>
          /\ running[i] = "analyzeEmailForSpam"
          /\ detectionResult'[i].detectionResult = call[i].val
          /\ detectionResult'[i].emailId = payload[i].id

C16_Frame ==
    /\ [](\A i \in Req : C16_Inv(i))
    /\ [][\A i \in Req : C16_Step(i)]_vars

\* an aggregate has been returned for a verdict with all four references
C16_Witness ==
    \E i \in Req :
        /\ result[i] # Null
        /\ Len(result[i].detectionResult.detectionResult.references) = 4
        /\ result[i].emailId = i

\* ---- C17
\* C17: an aggregate exists only for an invocation that is DONE with all three
\* outputs recorded; it says success, inbound.reply was called for it and
\* accepted with no error reported, its sendResult is the receipt the provider
\* returned to that call and is not null, and its reply is the html that call
\* carried.
C17_Inv(i) ==
    /\ result[i] # Null <=> state[i] = "DONE"
    /\ result[i] # Null =>
          /\ result[i].success = TRUE
          /\ detectionResult[i] # Null /\ reply[i] # Null /\ sendResult[i] # Null
          /\ accepted[i] >= 1
          /\ "sendReply" \notin errSeen[i]
          /\ result[i].sendResult = sendResult[i]
          /\ result[i].sendResult.data # Null
          /\ result[i].sendResult.data \in Receipts
          /\ \E c \in replyCalls[i] : c.html = result[i].reply.html

C17_Step(i) ==
    (sendResult[i] = Null /\ sendResult'[i] # Null) =>
        /\ running[i] = "sendReply"
        /\ call[i].st = "ok"
        /\ sendResult'[i].data = call[i].val

C17_SuccessMeansSent ==
    /\ [](\A i \in Req : C17_Inv(i))
    /\ [][\A i \in Req : C17_Step(i)]_vars

\* an aggregate has been returned with the provider's receipt after one call
C17_Witness ==
    \E i \in Req :
        /\ result[i] # Null
        /\ result[i].sendResult.data.messageId = 70
        /\ Cardinality(replyCalls[i]) = 1

\* ---- C18
\* C18: with calls always answered and the invocation always scheduled, every
\* started invocation ends up DONE or FAILED, and an invocation that is DONE
\* or FAILED changes nothing of its own any more.
C18_Terminates ==
    /\ \A i \in Req : (state[i] = "PENDING") ~> (state[i] \in Terminal)
    /\ [][\A i \in Req : state[i] \in Terminal => InvState(i)' = InvState(i)]_vars

\* both invocations are over, one failed by sendReply and one done
C18_Witness ==
    /\ state[1] = "FAILED" /\ raisedAt[1] = "sendReply"
    /\ state[2] = "DONE"

\* ---- C19
\* the entries a "; "-joined list names, in order
C19_Listed(kc) == [k \in 1..((Len(kc) + 1) \div 2) |-> kc[2 * k - 1]]

\* C19: the classification in the prompt is 'SPAM/MALICIOUS' exactly when
\* isSpam is true and 'LEGITIMATE' otherwise, whatever the confidence, and the
\* key concerns are the first three references, or all of them when there are
\* fewer, in their order.
C19_Prompt ==
    (pin.kind = "detection" /\ pout # Null) =>
        LET d == pin.detectionResult
            n == IF Len(d.references) < 3 THEN Len(d.references) ELSE 3
        IN /\ pout.classification = "SPAM/MALICIOUS" <=> d.isSpam
           /\ pout.classification = "LEGITIMATE" <=> ~d.isSpam
           /\ Len(C19_Listed(pout.keyConcerns)) = n
           /\ \A k \in 1..n : C19_Listed(pout.keyConcerns)[k] = d.references[k]
           /\ \A k \in 1..Len(pout.keyConcerns) :
                 k % 2 = 0 => pout.keyConcerns[k] = "; "

\* the prompt has been built for a low-confidence spam verdict with four
\* references that are not all the same
C19_Witness ==
    /\ pin.kind = "detection"
    /\ pout # Null
    /\ pin.detectionResult.isSpam
    /\ pin.detectionResult.confidence = 10
    /\ Len(pin.detectionResult.references) = 4
    /\ pin.detectionResult.references[3] # pin.detectionResult.references[4]

====
